---- MODULE Spec2Model ----
(***************************************************************************)
(* Model of the markup board's single-writer collaboration core:           *)
(*   - the board stores and the undo/redo history   (src/lib/stores/board.ts) *)
(*   - the session component: lock coordinator, save pipeline, teardown    *)
(*                                   (src/lib/components/MarkupBoard.svelte) *)
(*   - the bundled local adapters                (src/lib/adapters/local.ts) *)
(*   - a REST backend behind the REST adapters, modelled from its interface *)
(*                                                                         *)
(* Time is abstracted: an active interval timer may tick at any moment and *)
(* timestamps (Date.now()) are not kept.  A pending autosave timeout may   *)
(* fire at any moment, except in SpecDebounce, where a clock ages it and   *)
(* it fires no earlier than its delay.  Every await is a pair send /       *)
(* deliver on the bag msgs; the code between two awaits is one atomic step *)
(* (single-threaded event loop).                                           *)
(***************************************************************************)
EXTENDS Integers, Sequences, FiniteSets, Bags, TLC

VARIABLES
    session,     \* per user: the MarkupBoard component instance's fields
    board,       \* per user: the module-level stores of stores/board.ts
    msgs,        \* bag of adapter calls in flight (requests and responses)
    stored,      \* the stored document (REST server / localStorage entry)
    lockHolder,  \* the REST lock backend's holder, "none" when free
    nextId,      \* source of fresh shape ids (createId: Date.now + random)
    hist         \* observer: the last history operation and the state before it

vars == <<session, board, msgs, stored, lockHolder, nextId, hist>>

----------------------------------------------------------------------------
(* Bounds of the model *)

\* fresh shape ids handed out by createId
MaxShapes == 2
\* longest undo stack explored in the history specification
MaxHist == 2
\* local mutations of one session in the session specifications
MaxEdits == 1
\* adapter calls of one session in flight at once when a timer ticks
MaxInFlight == 2
\* highest stored version explored
MaxVersion == 2
\* the autosave delay AUTOSAVE_MS, in ticks of the clock
AutosaveTicks == 2

(* Program constants *)

ERASE_TOLERANCE == 8
DEFAULT_STROKE_WIDTH == 3
TEXT_HIT_RADIUS == 10

Users == {"A", "B"}
NoLayer == "none"
Null == [none |-> TRUE]

----------------------------------------------------------------------------
(* Shape / document model (types.ts) *)

Pt(x, y) == [x |-> x, y |-> y]

\* strokeWidth 0 stands for a missing strokeWidth (falsy in `strokeWidth || 3`)
ArrowShape(id, lid, a, b, sw) ==
    [id |-> id, kind |-> "arrow", layerId |-> lid, points |-> <<a, b>>,
     position |-> Pt(0, 0), strokeWidth |-> sw, text |-> ""]

FreehandShape(id, lid, pts, sw) ==
    [id |-> id, kind |-> "freehand", layerId |-> lid, points |-> pts,
     position |-> Pt(0, 0), strokeWidth |-> sw, text |-> ""]

TextShape(id, lid, pos, txt) ==
    [id |-> id, kind |-> "text", layerId |-> lid, points |-> <<>>,
     position |-> pos, strokeWidth |-> 0, text |-> txt]

Layer(id, visible, shapes) == [id |-> id, visible |-> visible, shapes |-> shapes]

createEmptyState_NoLayer ==
    [layers |-> <<>>, image |-> 0, version |-> 0]

\* createEmptyState: one visible layer without shapes, no image, version 0
createEmptyState ==
    [layers |-> <<Layer("layer-1", TRUE, <<>>)>>, image |-> 0, version |-> 0]

----------------------------------------------------------------------------
(* stores/board.ts: history *)

\* JSON.parse(JSON.stringify(ls)): every array and object is rebuilt from its
\* members; numbers (finite), strings and booleans map to themselves;
\* a member that is undefined is dropped (a missing strokeWidth stays missing).
JsonPoint(p) == [x |-> p.x, y |-> p.y]

JsonShape(s) ==
    [id |-> s.id, kind |-> s.kind, layerId |-> s.layerId,
     points |-> [i \in DOMAIN s.points |-> JsonPoint(s.points[i])],
     position |-> JsonPoint(s.position),
     strokeWidth |-> s.strokeWidth, text |-> s.text]

JsonLayer(l) ==
    [id |-> l.id, visible |-> l.visible,
     shapes |-> [j \in DOMAIN l.shapes |-> JsonShape(l.shapes[j])]]

deepCloneLayers(ls) == [i \in DOMAIN ls |-> JsonLayer(ls[i])]

Last(s) == s[Len(s)]
Front(s) == SubSeq(s, 1, Len(s) - 1)

updateLayer_PushNext(b, next) ==
    [b EXCEPT !.layers = next,
              !.undoStack = Append(b.undoStack, deepCloneLayers(next)),
              !.redoStack = <<>>]

updateLayer_KeepRedo(b, next) ==
    [b EXCEPT !.layers = next,
              !.undoStack = Append(b.undoStack, deepCloneLayers(b.layers))]

updateLayer_SkipUnchanged(b, next) ==
    IF next = b.layers THEN b
    ELSE [b EXCEPT !.layers = next,
                   !.undoStack = Append(b.undoStack, deepCloneLayers(b.layers)),
                   !.redoStack = <<>>]

\* updateLayer(updater), with next = updater(current layers)
updateLayer(b, next) ==
    [b EXCEPT !.layers = next,
              !.undoStack = Append(b.undoStack, deepCloneLayers(b.layers)),
              !.redoStack = <<>>]

undo_KeepEntry(b) ==
    IF Len(b.undoStack) = 0 THEN b
    ELSE [b EXCEPT !.redoStack = Append(b.redoStack, deepCloneLayers(b.layers)),
                   !.layers = Last(b.undoStack)]

undo_ResetVersion(b) ==
    IF Len(b.undoStack) = 0 THEN b
    ELSE [b EXCEPT !.undoStack = Front(b.undoStack),
                   !.redoStack = Append(b.redoStack, deepCloneLayers(b.layers)),
                   !.layers = Last(b.undoStack),
                   !.docVersion = 0]

undo(b) ==
    IF Len(b.undoStack) = 0 THEN b
    ELSE [b EXCEPT !.undoStack = Front(b.undoStack),
                   !.redoStack = Append(b.redoStack, deepCloneLayers(b.layers)),
                   !.layers = Last(b.undoStack)]

redo_NoUndoPush(b) ==
    IF Len(b.redoStack) = 0 THEN b
    ELSE [b EXCEPT !.redoStack = Front(b.redoStack),
                   !.layers = Last(b.redoStack)]

redo(b) ==
    IF Len(b.redoStack) = 0 THEN b
    ELSE [b EXCEPT !.redoStack = Front(b.redoStack),
                   !.undoStack = Append(b.undoStack, deepCloneLayers(b.layers)),
                   !.layers = Last(b.redoStack)]

\* applyState: layers, image and version are replaced; the stacks are not touched
applyState(b, state) ==
    [b EXCEPT !.layers = state.layers, !.docImage = state.image,
              !.docVersion = state.version]

\* upsertById: replace the item with the same id in place, else append
upsertById(arr, item) ==
    IF \E i \in DOMAIN arr : arr[i].id = item.id
    THEN [i \in DOMAIN arr |-> IF arr[i].id = item.id THEN item ELSE arr[i]]
    ELSE Append(arr, item)

\* prev.map((l) => (l.id === lid ? { ...l, shapes: newShapes(l) } : l)) with
\* addShape's updater: [...l.shapes, shape]
addShapeUpdater(ls, shape) ==
    [i \in DOMAIN ls |->
        IF ls[i].id = shape.layerId
        THEN [ls[i] EXCEPT !.shapes = Append(@, shape)] ELSE ls[i]]

\* upsertShape's updater: upsertById(l.shapes, shape)
upsertShapeUpdater(ls, lid, shape) ==
    [i \in DOMAIN ls |->
        IF ls[i].id = lid
        THEN [ls[i] EXCEPT !.shapes = upsertById(@, shape)] ELSE ls[i]]

deleteShapeUpdater_DropEmpty(ls, lid, shapeId) ==
    LET keep(s) == s.id # shapeId
        filtered == [i \in DOMAIN ls |->
                        IF ls[i].id = lid
                        THEN [ls[i] EXCEPT !.shapes = SelectSeq(@, keep)] ELSE ls[i]]
        nonEmpty(l) == l.shapes # <<>>
    IN SelectSeq(filtered, nonEmpty)

\* deleteShape's updater: l.shapes.filter((s) => s.id !== shapeId)
deleteShapeUpdater(ls, lid, shapeId) ==
    LET keep(s) == s.id # shapeId
    IN [i \in DOMAIN ls |->
        IF ls[i].id = lid
        THEN [ls[i] EXCEPT !.shapes = SelectSeq(@, keep)] ELSE ls[i]]

----------------------------------------------------------------------------
(* MarkupBoard.svelte: hit-testing and erase *)

Sq(x) == x * x

\* distancePointToSegment, squared and exact: <<num, den>> with
\* distance^2 = num / den (den > 0).  The projection parameter is clamped
\* to [0, 1] by the two early returns.
distancePointToSegment(p, a, b) ==
    LET vx == b.x - a.x
        vy == b.y - a.y
        wx == p.x - a.x
        wy == p.y - a.y
        c1 == vx * wx + vy * wy
        c2 == vx * vx + vy * vy
    IN IF c1 <= 0 THEN <<Sq(p.x - a.x) + Sq(p.y - a.y), 1>>
       ELSE IF c2 <= c1 THEN <<Sq(p.x - b.x) + Sq(p.y - b.y), 1>>
       ELSE <<(Sq(wx) + Sq(wy)) * c2 - Sq(c1), c2>>

\* d <= r for a squared distance d = <<num, den>> and r >= 0
Within(d, r) == d[1] <= Sq(r) * d[2]

StrokeOf(shape) == IF shape.strokeWidth = 0 THEN DEFAULT_STROKE_WIDTH ELSE shape.strokeWidth

shouldEraseShapeAt_NoClamp(shape, p) ==
    LET toLine(a, b) ==
            LET vx == b.x - a.x
                vy == b.y - a.y
                wx == p.x - a.x
                wy == p.y - a.y
                c1 == vx * wx + vy * wy
                c2 == vx * vx + vy * vy
            IN IF c2 = 0 THEN <<Sq(wx) + Sq(wy), 1>>
               ELSE <<(Sq(wx) + Sq(wy)) * c2 - Sq(c1), c2>>
    IN IF shape.kind = "freehand"
       THEN \E i \in 2..Len(shape.points) :
               Within(toLine(shape.points[i - 1], shape.points[i]),
                      StrokeOf(shape) + ERASE_TOLERANCE)
       ELSE IF shape.kind = "arrow"
       THEN Within(toLine(shape.points[1], shape.points[2]),
                   StrokeOf(shape) + ERASE_TOLERANCE)
       ELSE IF shape.kind = "text"
       THEN Sq(p.x - shape.position.x) + Sq(p.y - shape.position.y)
               <= Sq(TEXT_HIT_RADIUS + ERASE_TOLERANCE)
       ELSE FALSE

shouldEraseShapeAt(shape, p) ==
    IF shape.kind = "freehand"
    THEN \E i \in 2..Len(shape.points) :
            Within(distancePointToSegment(p, shape.points[i - 1], shape.points[i]),
                   StrokeOf(shape) + ERASE_TOLERANCE)
    ELSE IF shape.kind = "arrow"
    THEN Within(distancePointToSegment(p, shape.points[1], shape.points[2]),
                StrokeOf(shape) + ERASE_TOLERANCE)
    ELSE IF shape.kind = "text"
    THEN Sq(p.x - shape.position.x) + Sq(p.y - shape.position.y)
            <= Sq(TEXT_HIT_RADIUS + ERASE_TOLERANCE)
    ELSE FALSE

getActiveLayerId_First(ls) ==
    IF Len(ls) > 0 THEN ls[1].id ELSE NoLayer

\* getActiveLayerId: the first visible layer, else the first layer, else none
getActiveLayerId(ls) ==
    IF \E i \in DOMAIN ls : ls[i].visible
    THEN ls[CHOOSE i \in DOMAIN ls :
                ls[i].visible /\ \A j \in DOMAIN ls : ls[j].visible => i <= j].id
    ELSE IF Len(ls) > 0 THEN ls[1].id
    ELSE NoLayer

\* eraseAtPoint's updater: l.shapes.filter((s) => !shouldEraseShapeAt(s, p))
eraseUpdater(ls, lid, p) ==
    LET keep(s) == ~shouldEraseShapeAt(s, p)
    IN [i \in DOMAIN ls |->
        IF ls[i].id = lid
        THEN [ls[i] EXCEPT !.shapes = SelectSeq(@, keep)] ELSE ls[i]]

eraseAtPoint_PerShape(b, p) ==
    LET lid == getActiveLayerId(b.layers)
        hit == UNION {{l.shapes[j].id : j \in {k \in DOMAIN l.shapes :
                                            shouldEraseShapeAt(l.shapes[k], p)}} :
                      l \in {b.layers[i] : i \in {k \in DOMAIN b.layers :
                                                    b.layers[k].id = lid}}}
        remove[S \in SUBSET hit] ==
            IF S = {} THEN b
            ELSE LET id == CHOOSE x \in S : TRUE
                     prev == remove[S \ {id}]
                 IN updateLayer(prev, deleteShapeUpdater(prev.layers, lid, id))
    IN IF lid = NoLayer THEN b ELSE remove[hit]

\* eraseAtPoint: returns at once without an active layer, else one
\* updateLayer with the filtered layers (also when the filter removes nothing)
eraseAtPoint(b, p) ==
    LET lid == getActiveLayerId(b.layers)
    IN IF lid = NoLayer THEN b
       ELSE updateLayer(b, eraseUpdater(b.layers, lid, p))

----------------------------------------------------------------------------
(* MarkupBoard.svelte: timers and the autosave scheduler *)

\* lockHeartbeat, pollInterval: TRUE while the interval the variable names is
\* active (every setInterval is preceded by clearInterval of the same variable,
\* so no interval outlives its variable).
\* autosaveTimer: the ages, in clock ticks, of the pending autosave timeouts.
\* clearTimeout(autosaveTimer) cancels the timeout that was set last, the
\* youngest one; setTimeout adds a timeout of age 0.
clearTimeout(T) ==
    IF T = {} THEN {} ELSE T \ {CHOOSE a \in T : \A b \in T : a <= b}

scheduleAutosave_NoClear(r) ==
    IF ~r.isEditor THEN r ELSE [r EXCEPT !.autosaveTimer = @ \cup {0}]

scheduleAutosave(r) ==
    IF ~r.isEditor THEN r
    ELSE [r EXCEPT !.autosaveTimer = clearTimeout(@) \cup {0}]

startHeartbeat(r) == [r EXCEPT !.pollInterval = FALSE, !.lockHeartbeat = TRUE]

startPolling_KeepHeartbeat(r) == [r EXCEPT !.pollInterval = TRUE]

startPolling(r) == [r EXCEPT !.lockHeartbeat = FALSE, !.pollInterval = TRUE]

\* `$: $layers, scheduleAutosave()` and `$: $docImage, scheduleAutosave()`:
\* run at the flush that follows a change of the store, while the component
\* is alive (its store subscriptions end at destroy)
onStoreChange(r) == IF r.phase = "mounted" THEN scheduleAutosave(r) ELSE r

\* saveStatePartial's entry test
canStartSave_IgnoreSaving(r) == r.isEditor

canStartSave_IgnoreEditor(r) == ~r.saving

canStartSave(r) == ~(~r.isEditor \/ r.saving)

\* getStateSnapshot plus the payload shaping of saveStatePartial: the image
\* is left out when it is the one last saved
saveRequest(r, b) ==
    [layers |-> b.layers,
     image |-> IF b.docImage = r.lastSavedImageDataUrl THEN 0 ELSE b.docImage,
     baseVersion |-> b.docVersion]

----------------------------------------------------------------------------
(* Adapter calls in flight *)

Msg(s, kind, st, arg, res) ==
    [sess |-> s, kind |-> kind, st |-> st, arg |-> arg, res |-> res]

Req(s, kind, arg) == Msg(s, kind, "req", arg, Null)

Send(bag, m) == bag (+) SetToBag({m})
Take(bag, m) == bag (-) SetToBag({m})

Reply(m, res) == Send(Take(msgs, m), [m EXCEPT !.st = "resp", !.res = res])

InFlight(s) ==
    LET mine == {m \in BagToSet(msgs) : m.sess = s}
        Sum[S \in SUBSET mine] ==
            IF S = {} THEN 0
            ELSE LET x == CHOOSE y \in S : TRUE
                 IN CopiesIn(x, msgs) + Sum[S \ {x}]
    IN Sum[mine]

Requests(kinds) == {m \in BagToSet(msgs) : m.st = "req" /\ m.kind \in kinds}
Responses(s, kind) ==
    {m \in BagToSet(msgs) : m.st = "resp" /\ m.kind = kind /\ m.sess = s}

Ok(res) == res.err = ""

DocKinds == {"load", "pollDoc", "reload"}

----------------------------------------------------------------------------
(* MarkupBoard.svelte: the session *)

\* onMount -> loadInitial: storageAdapter.getDocument(docId)
Mount(s) ==
    /\ session[s].phase = "new"
    /\ session' = [session EXCEPT ![s].phase = "mounted"]
    /\ msgs' = Send(msgs, Req(s, "load", Null))
    /\ UNCHANGED <<board, stored, lockHolder, nextId, hist>>

\* loadInitial after getDocument: any failure falls back to createEmptyState;
\* applyState, remember the image, then tryAcquire -> lockAdapter.acquire
LoadDone(s) ==
    \E m \in Responses(s, "load") :
        LET state == IF Ok(m.res) THEN m.res.doc ELSE createEmptyState
        IN /\ board' = [board EXCEPT ![s] = applyState(@, state)]
           /\ session' = [session EXCEPT ![s] =
                    onStoreChange([@ EXCEPT !.lastSavedImageDataUrl = state.image])]
           /\ msgs' = Send(Take(msgs, m), Req(s, "acquire", Null))
           /\ UNCHANGED <<stored, lockHolder, nextId, hist>>

tryAcquireDone_ThrowKeepsState(r, res) ==
    IF ~Ok(res) THEN r
    ELSE IF res.ok THEN startHeartbeat([r EXCEPT !.isEditor = TRUE])
    ELSE startPolling([r EXCEPT !.isEditor = FALSE])

\* tryAcquire after acquire
tryAcquireDone(r, res) ==
    IF Ok(res) /\ res.ok
    THEN startHeartbeat([r EXCEPT !.isEditor = TRUE])
    ELSE startPolling([r EXCEPT !.isEditor = FALSE])

AcquireDone(s) ==
    \E m \in Responses(s, "acquire") :
        /\ session' = [session EXCEPT ![s] = tryAcquireDone(@, m.res)]
        /\ msgs' = Take(msgs, m)
        /\ UNCHANGED <<board, stored, lockHolder, nextId, hist>>

\* a tick of the heartbeat interval: lockAdapter.renew
HeartbeatTick(s) ==
    /\ session[s].lockHeartbeat
    /\ InFlight(s) < MaxInFlight
    /\ msgs' = Send(msgs, Req(s, "renew", Null))
    /\ UNCHANGED <<session, board, stored, lockHolder, nextId, hist>>

renewDone_DemoteOnThrow(r, res) ==
    IF ~Ok(res) \/ ~res.ok
    THEN startPolling([r EXCEPT !.isEditor = FALSE, !.lockHeartbeat = FALSE])
    ELSE r

\* the heartbeat callback after renew: demote on ok = false, ignore a throw
renewDone(r, res) ==
    IF Ok(res) /\ ~res.ok
    THEN startPolling([r EXCEPT !.isEditor = FALSE, !.lockHeartbeat = FALSE])
    ELSE r

RenewDone(s) ==
    \E m \in Responses(s, "renew") :
        /\ session' = [session EXCEPT ![s] = renewDone(@, m.res)]
        /\ msgs' = Take(msgs, m)
        /\ UNCHANGED <<board, stored, lockHolder, nextId, hist>>

\* a tick of the poll interval: lockAdapter.get
PollTick(s) ==
    /\ session[s].pollInterval
    /\ InFlight(s) < MaxInFlight
    /\ msgs' = Send(msgs, Req(s, "get", Null))
    /\ UNCHANGED <<session, board, stored, lockHolder, nextId, hist>>

GetDone_StopOnHeld(s) ==
    \E m \in Responses(s, "get") :
        /\ IF ~Ok(m.res)
           THEN /\ msgs' = Take(msgs, m)
                /\ UNCHANGED session
           ELSE IF ~m.res.locked
           THEN /\ session' = [session EXCEPT ![s].pollInterval = FALSE]
                /\ msgs' = Send(Take(msgs, m), Req(s, "acquire", Null))
           ELSE /\ session' = [session EXCEPT ![s].pollInterval = FALSE]
                /\ msgs' = Send(Take(msgs, m), Req(s, "pollDoc", Null))
        /\ UNCHANGED <<board, stored, lockHolder, nextId, hist>>

\* the poll callback after get: free -> stop polling and tryAcquire;
\* held -> getDocument; a throw is swallowed
GetDone(s) ==
    \E m \in Responses(s, "get") :
        /\ IF ~Ok(m.res)
           THEN /\ msgs' = Take(msgs, m)
                /\ UNCHANGED session
           ELSE IF ~m.res.locked
           THEN /\ session' = [session EXCEPT ![s].pollInterval = FALSE]
                /\ msgs' = Send(Take(msgs, m), Req(s, "acquire", Null))
           ELSE /\ msgs' = Send(Take(msgs, m), Req(s, "pollDoc", Null))
                /\ UNCHANGED session
        /\ UNCHANGED <<board, stored, lockHolder, nextId, hist>>

\* the poll callback after getDocument: applyState and remember the image
PollDocDone(s) ==
    \E m \in Responses(s, "pollDoc") :
        /\ IF Ok(m.res)
           THEN /\ board' = [board EXCEPT ![s] = applyState(@, m.res.doc)]
                /\ session' = [session EXCEPT ![s] =
                        onStoreChange([@ EXCEPT !.lastSavedImageDataUrl = m.res.doc.image])]
           ELSE UNCHANGED <<board, session>>
        /\ msgs' = Take(msgs, m)
        /\ UNCHANGED <<stored, lockHolder, nextId, hist>>

\* an autosave timeout that is at least `delay` ticks old fires:
\* saveStatePartial up to saveDocument.  Where the clock is not modelled the
\* delay is 0: a pending timeout may fire at any moment.
AutosaveFire(s, delay) ==
    /\ \E a \in session[s].autosaveTimer :
        /\ a >= delay
        /\ LET r == [session[s] EXCEPT !.autosaveTimer = @ \ {a}]
           IN IF canStartSave(r)
              THEN /\ session' = [session EXCEPT ![s] = [r EXCEPT !.saving = TRUE]]
                   /\ msgs' = Send(msgs, Req(s, "save", saveRequest(r, board[s])))
              ELSE /\ session' = [session EXCEPT ![s] = r]
                   /\ UNCHANGED msgs
    /\ UNCHANGED <<board, stored, lockHolder, nextId, hist>>

SaveDone_ApplySnapshot(s) ==
    \E m \in Responses(s, "save") :
        /\ IF Ok(m.res)
           THEN /\ board' = [board EXCEPT ![s].docVersion = m.res.version,
                                          ![s].layers = m.arg.layers]
                /\ session' = [session EXCEPT ![s] =
                        [@ EXCEPT !.saving = FALSE,
                                  !.lastSavedImageDataUrl =
                                      IF m.arg.image # 0 THEN m.arg.image ELSE @]]
                /\ msgs' = Take(msgs, m)
           ELSE IF m.res.err = "version_conflict"
           THEN /\ msgs' = Send(Take(msgs, m), Req(s, "reload", Null))
                /\ UNCHANGED <<board, session>>
           ELSE /\ msgs' = Take(msgs, m)
                /\ session' = [session EXCEPT ![s].saving = FALSE]
                /\ UNCHANGED board
        /\ UNCHANGED <<stored, lockHolder, nextId, hist>>

SaveDone_KeepSaving(s) ==
    \E m \in Responses(s, "save") :
        /\ IF Ok(m.res)
           THEN /\ board' = [board EXCEPT ![s].docVersion = m.res.version]
                /\ session' = [session EXCEPT ![s] =
                        [@ EXCEPT !.saving = FALSE,
                                  !.lastSavedImageDataUrl =
                                      IF m.arg.image # 0 THEN m.arg.image ELSE @]]
                /\ msgs' = Take(msgs, m)
           ELSE IF m.res.err = "version_conflict"
           THEN /\ msgs' = Send(Take(msgs, m), Req(s, "reload", Null))
                /\ UNCHANGED <<board, session>>
           ELSE /\ msgs' = Take(msgs, m)
                /\ UNCHANGED <<board, session>>
        /\ UNCHANGED <<stored, lockHolder, nextId, hist>>

\* saveStatePartial after saveDocument: success, version conflict (reload with
\* getDocument, saving stays set), any other failure
SaveDone(s) ==
    \E m \in Responses(s, "save") :
        /\ IF Ok(m.res)
           THEN /\ board' = [board EXCEPT ![s].docVersion = m.res.version]
                /\ session' = [session EXCEPT ![s] =
                        [@ EXCEPT !.saving = FALSE,
                                  !.lastSavedImageDataUrl =
                                      IF m.arg.image # 0 THEN m.arg.image ELSE @]]
                /\ msgs' = Take(msgs, m)
           ELSE IF m.res.err = "version_conflict"
           THEN /\ msgs' = Send(Take(msgs, m), Req(s, "reload", Null))
                /\ UNCHANGED <<board, session>>
           ELSE /\ session' = [session EXCEPT ![s].saving = FALSE]
                /\ msgs' = Take(msgs, m)
                /\ UNCHANGED board
        /\ UNCHANGED <<stored, lockHolder, nextId, hist>>

\* the conflict branch after getDocument: applyState, demote, startPolling;
reloadDone_StuckOnThrow(r, res) ==
    IF Ok(res)
    THEN [startPolling([r EXCEPT !.lastSavedImageDataUrl = res.doc.image,
                                 !.isEditor = FALSE])
            EXCEPT !.saving = FALSE]
    ELSE r

reloadDone_KeepHeartbeat(r, res) ==
    IF Ok(res)
    THEN [r EXCEPT !.lastSavedImageDataUrl = res.doc.image,
                   !.isEditor = FALSE, !.saving = FALSE]
    ELSE [r EXCEPT !.saving = FALSE]

\* when getDocument throws only the finally block runs
reloadDone(r, res) ==
    IF Ok(res)
    THEN [startPolling([r EXCEPT !.lastSavedImageDataUrl = res.doc.image,
                                 !.isEditor = FALSE])
            EXCEPT !.saving = FALSE]
    ELSE [r EXCEPT !.saving = FALSE]

ReloadDone_Release(s) ==
    \E m \in Responses(s, "reload") :
        /\ board' = [board EXCEPT ![s] =
                IF Ok(m.res) THEN applyState(@, m.res.doc) ELSE @]
        /\ session' = [session EXCEPT ![s] =
                IF Ok(m.res) THEN onStoreChange(reloadDone(@, m.res))
                ELSE reloadDone(@, m.res)]
        /\ msgs' = IF Ok(m.res) THEN Send(Take(msgs, m), Req(s, "release", Null))
                   ELSE Take(msgs, m)
        /\ UNCHANGED <<stored, lockHolder, nextId, hist>>

ReloadDone(s) ==
    \E m \in Responses(s, "reload") :
        /\ board' = [board EXCEPT ![s] =
                IF Ok(m.res) THEN applyState(@, m.res.doc) ELSE @]
        /\ session' = [session EXCEPT ![s] =
                IF Ok(m.res) THEN onStoreChange(reloadDone(@, m.res))
                ELSE reloadDone(@, m.res)]
        /\ msgs' = Take(msgs, m)
        /\ UNCHANGED <<stored, lockHolder, nextId, hist>>

Destroy_AlwaysRelease(s) ==
    /\ session[s].phase = "mounted"
    /\ session' = [session EXCEPT ![s] =
            [@ EXCEPT !.phase = "destroyed", !.lockHeartbeat = FALSE,
                      !.pollInterval = FALSE]]
    /\ msgs' = Send(msgs, Req(s, "release", Null))
    /\ UNCHANGED <<board, stored, lockHolder, nextId, hist>>

\* the images a chosen file can resize to (data URLs); 0 stands for no image
Images == {1, 2}

\* onFileChange up to its await: the file input is enabled while isEditor;
\* fileToDataUrlResized runs in the browser and yields the data URL
PickFile(s) ==
    /\ session[s].phase = "mounted"
    /\ session[s].isEditor
    /\ InFlight(s) < MaxInFlight
    /\ \E i \in Images :
        msgs' = Send(msgs, Msg(s, "resize", "resp", Null, [err |-> "", image |-> i]))
    /\ UNCHANGED <<session, board, stored, lockHolder, nextId, hist>>

\* onFileChange after fileToDataUrlResized: docImage.set, the last-saved
\* fingerprint is forgotten, scheduleAutosave (called, and run again by the
\* reactive trigger of $docImage)
FileDone(s) ==
    \E m \in Responses(s, "resize") :
        /\ board' = [board EXCEPT ![s].docImage = m.res.image]
        /\ session' = [session EXCEPT ![s] =
                onStoreChange(scheduleAutosave([@ EXCEPT !.lastSavedImageDataUrl = 0]))]
        /\ msgs' = Take(msgs, m)
        /\ UNCHANGED <<stored, lockHolder, nextId, hist>>

\* onDestroy: both intervals are cleared (the autosave timeout is not), and
\* the lock is released when the session is Editor
Destroy(s) ==
    /\ session[s].phase = "mounted"
    /\ session' = [session EXCEPT ![s] =
            [@ EXCEPT !.phase = "destroyed", !.lockHeartbeat = FALSE,
                      !.pollInterval = FALSE]]
    /\ msgs' = IF session[s].isEditor THEN Send(msgs, Req(s, "release", Null)) ELSE msgs
    /\ UNCHANGED <<board, stored, lockHolder, nextId, hist>>

\* onDestroy after release: nothing of the session changes
ReleaseDone(s) ==
    \E m \in Responses(s, "release") :
        /\ msgs' = Take(msgs, m)
        /\ UNCHANGED <<session, board, stored, lockHolder, nextId, hist>>

\* the clock advances by one tick: every pending autosave timeout grows older
\* (ages are kept up to the delay, from which on the timeout is due)
TimePasses ==
    LET older(a) == IF a < AutosaveTicks THEN a + 1 ELSE a
    IN /\ session' = [s \in Users |->
                [session[s] EXCEPT !.autosaveTimer = {older(a) : a \in @}]]
       /\ hist' = [hist EXCEPT !.quiet = older(@)]
       /\ UNCHANGED <<board, msgs, stored, lockHolder, nextId>>

----------------------------------------------------------------------------
(* Observer of the history operations (not program state): the operation   *)
(* performed last, the layers and stacks before it, a mark that counts the *)
(* mutations and then the undos performed since a remembered state, and    *)
(* the clock ticks since the last operation that changed the layers.       *)

H(b) == <<b.layers, b.undoStack, b.redoStack>>

MarkOff == [on |-> FALSE, L |-> <<>>, n |-> 0, u |-> 0]
HistOff ==
    [on |-> FALSE, last |-> "none", before |-> <<>>, mark |-> MarkOff, quiet |-> 0,
     point |-> Null]
HistOn == [HistOff EXCEPT !.on = TRUE]
\* also records the point of the last erase
HistErase == [HistOn EXCEPT !.point = Pt(0, 0)]

obsEdit(h, b, restart) ==
    IF ~h.on THEN h
    ELSE [h EXCEPT !.last = "edit", !.before = H(b), !.quiet = 0,
                   !.mark = IF restart \/ ~h.mark.on \/ h.mark.u > 0
                            THEN [on |-> TRUE, L |-> b.layers, n |-> 1, u |-> 0]
                            ELSE [@ EXCEPT !.n = @ + 1]]

\* an erase at point p: an edit when there is an active layer
obsErase(h, b, p, restart) ==
    LET at == IF h.point = Null THEN Null ELSE p
    IN IF ~h.on THEN h
       ELSE IF getActiveLayerId(b.layers) = NoLayer
       THEN [h EXCEPT !.last = "noop", !.point = at]
       ELSE [obsEdit(h, b, restart) EXCEPT !.point = at]

obsUndo(h, b) ==
    IF ~h.on THEN h
    ELSE IF Len(b.undoStack) = 0 THEN [h EXCEPT !.last = "noop"]
    ELSE [h EXCEPT !.last = "undo", !.before = H(b), !.quiet = 0,
                   !.mark = IF @.on /\ @.u < @.n THEN [@ EXCEPT !.u = @ + 1]
                            ELSE MarkOff]

obsRedo(h, b) ==
    IF ~h.on THEN h
    ELSE IF Len(b.redoStack) = 0 THEN [h EXCEPT !.last = "noop"]
    ELSE IF h.last = "undo"
    THEN [h EXCEPT !.last = "undoredo", !.quiet = 0, !.mark = MarkOff]
    ELSE [h EXCEPT !.last = "redo", !.before = H(b), !.quiet = 0, !.mark = MarkOff]

----------------------------------------------------------------------------
(* MarkupBoard.svelte: the editing handlers, reachable while the component *)
(* is mounted, each under the test of isEditor its code makes.  The stage  *)
(* is taken to exist (an image is shown).  Each change of the layers store *)
(* is followed by the reactive scheduleAutosave.                           *)

CanEdit(s, limit) ==
    /\ session[s].phase = "mounted"
    /\ session[s].isEditor
    /\ Len(board[s].undoStack) < limit

Mutate(s, next, restart) ==
    /\ hist' = obsEdit(hist, board[s], restart)
    /\ board' = [board EXCEPT ![s] = updateLayer(@, next)]
    /\ session' = [session EXCEPT ![s] = onStoreChange(@)]
    /\ UNCHANGED <<msgs, stored, lockHolder>>

\* the shapes a pointer gesture can create, with the fresh id and the layer
ArrowDrawn(id, lid) == ArrowShape(id, lid, Pt(10, 10), Pt(50, 50), 3)
TextDrawn(id, lid) == TextShape(id, lid, Pt(100, 100), "")
FreehandDrawn(id, lid) ==
    FreehandShape(id, lid, <<Pt(10, 50), Pt(30, 50), Pt(30, 80)>>, 2)

\* onStagePointerDown .. onStagePointerUp with the arrow, draw or text tool:
\* addShape on the layer getActiveLayerId named
AddShape(s, kinds, limit) ==
    /\ CanEdit(s, limit)
    /\ nextId <= MaxShapes
    /\ getActiveLayerId(board[s].layers) # NoLayer
    /\ \E k \in kinds, restart \in BOOLEAN :
        LET lid == getActiveLayerId(board[s].layers)
            shape == IF k = "arrow" THEN ArrowDrawn(nextId, lid)
                     ELSE IF k = "text" THEN TextDrawn(nextId, lid)
                     ELSE FreehandDrawn(nextId, lid)
        IN Mutate(s, addShapeUpdater(board[s].layers, shape), restart)
    /\ nextId' = nextId + 1

\* handleKeydown with Backspace/Delete and a selected shape
DeleteShape(s) ==
    /\ CanEdit(s, MaxHist)
    /\ \E i \in DOMAIN board[s].layers, restart \in BOOLEAN :
        \E j \in DOMAIN board[s].layers[i].shapes :
            Mutate(s, deleteShapeUpdater(board[s].layers, board[s].layers[i].id,
                                         board[s].layers[i].shapes[j].id), restart)
    /\ UNCHANGED nextId

\* upsertShape from the handlers of a text group (a group exists for the text
\* shapes of visible layers):
\*  - dblclick -> startEditText, then blur or ctrl-Enter -> commitEditor;
\*    neither tests isEditor
\*  - dragend; the group is draggable only while isEditor
UpsertShape(s) ==
    /\ session[s].phase = "mounted"
    /\ Len(board[s].undoStack) < MaxHist
    /\ \E i \in DOMAIN board[s].layers, restart \in BOOLEAN :
        \E j \in DOMAIN board[s].layers[i].shapes :
            LET shape == board[s].layers[i].shapes[j]
                edited == {[shape EXCEPT !.text = "hi"]}
                dragged == IF session[s].isEditor
                           THEN {[shape EXCEPT !.position = Pt(30, 30)]} ELSE {}
            IN /\ shape.kind = "text"
               /\ board[s].layers[i].visible
               /\ \E new \in edited \cup dragged :
                    Mutate(s, upsertShapeUpdater(board[s].layers, shape.layerId, new),
                           restart)
    /\ UNCHANGED nextId

ErasePoints == {Pt(30, 30), Pt(100, 100), Pt(200, 200)}

\* onStagePointerDown / onStagePointerMove with the erase tool: eraseAtPoint
EraseAt(s, points) ==
    /\ CanEdit(s, MaxHist)
    /\ \E p \in points, restart \in BOOLEAN :
        /\ hist' = obsErase(hist, board[s], p, restart)
        /\ board' = [board EXCEPT ![s] = eraseAtPoint(@, p)]
        /\ session' = [session EXCEPT ![s] =
                IF getActiveLayerId(board[s].layers) = NoLayer THEN @
                ELSE onStoreChange(@)]
    /\ UNCHANGED <<msgs, stored, lockHolder, nextId>>

Erase(s) == EraseAt(s, ErasePoints)

\* handleKeydown with ctrl/cmd-Z and the Undo button
Undo(s) ==
    /\ session[s].phase = "mounted"
    /\ session[s].isEditor
    /\ hist' = obsUndo(hist, board[s])
    /\ board' = [board EXCEPT ![s] = undo(@)]
    /\ session' = [session EXCEPT ![s] =
            IF Len(board[s].undoStack) = 0 THEN @ ELSE onStoreChange(@)]
    /\ UNCHANGED <<msgs, stored, lockHolder, nextId>>

\* handleKeydown with ctrl/cmd-shift-Z and the Redo button
Redo(s) ==
    /\ session[s].phase = "mounted"
    /\ session[s].isEditor
    /\ hist' = obsRedo(hist, board[s])
    /\ board' = [board EXCEPT ![s] = redo(@)]
    /\ session' = [session EXCEPT ![s] =
            IF Len(board[s].redoStack) = 0 THEN @ ELSE onStoreChange(@)]
    /\ UNCHANGED <<msgs, stored, lockHolder, nextId>>

----------------------------------------------------------------------------
(* Initial states *)

FreshSession ==
    [phase |-> "new", isEditor |-> FALSE, saving |-> FALSE,
     lockHeartbeat |-> FALSE, pollInterval |-> FALSE, autosaveTimer |-> {},
     lastSavedImageDataUrl |-> 0]

\* a session that has loaded its document and acquired the lock
EditorSession ==
    [FreshSession EXCEPT !.phase = "mounted", !.isEditor = TRUE,
                         !.lockHeartbeat = TRUE]

\* the stores as board.ts initialises them
FreshBoard ==
    [layers |-> <<>>, docImage |-> 0, docVersion |-> 0,
     undoStack |-> <<>>, redoStack |-> <<>>]

NoDocument == [exists |-> FALSE, layers |-> <<>>, image |-> 0, version |-> 0]

\* documents found in storage; shape ids above MaxShapes + 1 are never reused
StoredArrow == ArrowShape(101, "layer-1", Pt(10, 10), Pt(50, 50), 3)
StoredText == TextShape(102, "layer-2", Pt(100, 100), "note")
OtherArrow == ArrowShape(103, "layer-1", Pt(10, 10), Pt(50, 50), 0)

LayersOneArrow == <<Layer("layer-1", TRUE, <<StoredArrow>>)>>
LayersTwo ==
    <<Layer("layer-1", TRUE, <<StoredArrow>>), Layer("layer-2", TRUE, <<StoredText>>)>>
LayersHidden ==
    <<Layer("layer-1", FALSE, <<StoredArrow>>), Layer("layer-2", TRUE, <<StoredText>>)>>
LayersOther == <<Layer("layer-1", TRUE, <<StoredArrow, OtherArrow>>)>>

----------------------------------------------------------------------------
(* The REST backend behind createRESTStorageAdapter / createRESTLockAdapter. *)
(* The server is not part of the sources: it is modelled from the interface *)
(* (a save whose baseVersion is stale is answered 409, the lock has one    *)
(* holder).  The adapters turn 409 into Error('version_conflict') and any  *)
(* other non-2xx answer into another Error.                                *)

DocOf(st) == [layers |-> st.layers, image |-> st.image, version |-> st.version]

RestGetDocument ==
    \E m \in Requests(DocKinds) :
        /\ msgs' = Reply(m, IF stored.exists
                            THEN [err |-> "", doc |-> DocOf(stored)]
                            ELSE [err |-> "not_found"])
        /\ UNCHANGED <<session, board, stored, lockHolder, nextId, hist>>

RestSaveDocument ==
    \E m \in Requests({"save"}) :
        /\ IF m.arg.baseVersion # stored.version
           THEN /\ msgs' = Reply(m, [err |-> "version_conflict"])
                /\ UNCHANGED stored
           ELSE /\ stored.version < MaxVersion
                /\ stored' = [exists |-> TRUE, layers |-> m.arg.layers,
                              image |-> IF m.arg.image = 0 THEN stored.image
                                        ELSE m.arg.image,
                              version |-> stored.version + 1]
                /\ msgs' = Reply(m, [err |-> "", version |-> stored.version + 1])
        /\ UNCHANGED <<session, board, lockHolder, nextId, hist>>

RestAcquire ==
    \E m \in Requests({"acquire"}) :
        /\ IF lockHolder \in {"none", m.sess}
           THEN /\ lockHolder' = m.sess
                /\ msgs' = Reply(m, [err |-> "", ok |-> TRUE])
           ELSE /\ msgs' = Reply(m, [err |-> "", ok |-> FALSE])
                /\ UNCHANGED lockHolder
        /\ UNCHANGED <<session, board, stored, nextId, hist>>

RestRenew ==
    \E m \in Requests({"renew"}) :
        /\ msgs' = Reply(m, [err |-> "", ok |-> (lockHolder = m.sess)])
        /\ UNCHANGED <<session, board, stored, lockHolder, nextId, hist>>

RestRelease ==
    \E m \in Requests({"release"}) :
        /\ lockHolder' = IF lockHolder = m.sess THEN "none" ELSE lockHolder
        /\ msgs' = Reply(m, [err |-> "", ok |-> TRUE])
        /\ UNCHANGED <<session, board, stored, nextId, hist>>

RestGet ==
    \E m \in Requests({"get"}) :
        /\ msgs' = Reply(m, [err |-> "", locked |-> (lockHolder # "none")])
        /\ UNCHANGED <<session, board, stored, lockHolder, nextId, hist>>

\* fetch rejects, or the server answers with an error status
TransportError ==
    \E m \in BagToSet(msgs) :
        /\ m.st = "req"
        /\ msgs' = Reply(m, [err |-> "transport"])
        /\ UNCHANGED <<session, board, stored, lockHolder, nextId, hist>>

\* the lock leaves its holder: the backend's expiry, or the holder's release
LockExpire ==
    /\ lockHolder # "none"
    /\ lockHolder' = "none"
    /\ UNCHANGED <<session, board, msgs, stored, nextId, hist>>

\* another user takes the free lock
OtherAcquire ==
    /\ lockHolder = "none"
    /\ lockHolder' = "X"
    /\ UNCHANGED <<session, board, msgs, stored, nextId, hist>>

\* another writer's save reaches the server (a concurrent external update)
OtherSave ==
    /\ stored.version < MaxVersion
    /\ stored' = [exists |-> TRUE, layers |-> LayersOther, image |-> stored.image,
                  version |-> stored.version + 1]
    /\ UNCHANGED <<session, board, msgs, lockHolder, nextId, hist>>

----------------------------------------------------------------------------
(* adapters/local.ts: the bundled local adapters.  localStorage holds the  *)
(* document; each method runs to completion within one task of its tab.    *)

localSaveNext_ClientVersion(prev, state) ==
    [exists |-> TRUE,
     layers |-> deepCloneLayers(state.layers),
     image |-> IF state.image # 0 THEN state.image
               ELSE IF prev.exists THEN prev.image ELSE 0,
     version |-> state.baseVersion + 1]

\* saveDocument's `next`: { ...(prev ?? state), ...state, image: state.image ??
\* prev?.image, version: (prev?.version ?? 0) + 1 }, stored as JSON.
\* baseVersion is not read.
localSaveNext(prev, state) ==
    [exists |-> TRUE,
     layers |-> deepCloneLayers(state.layers),
     image |-> IF state.image # 0 THEN state.image
               ELSE IF prev.exists THEN prev.image ELSE 0,
     version |-> (IF prev.exists THEN prev.version ELSE 0) + 1]

LocalGetDocument ==
    \E m \in Requests(DocKinds) :
        /\ msgs' = Reply(m, IF stored.exists
                            THEN [err |-> "", doc |-> DocOf(stored)]
                            ELSE [err |-> "not_found"])
        /\ UNCHANGED <<session, board, stored, lockHolder, nextId, hist>>

LocalSaveDocument ==
    \E m \in Requests({"save"}) :
        /\ stored.version < MaxVersion
        /\ stored' = localSaveNext(stored, m.arg)
        /\ msgs' = Reply(m, [err |-> "", version |-> stored'.version])
        /\ UNCHANGED <<session, board, lockHolder, nextId, hist>>

\* lockAdapter: acquire, renew and release answer ok: true, get answers
\* locked: false; no lock is kept
LocalAcquire ==
    \E m \in Requests({"acquire"}) :
        /\ msgs' = Reply(m, [err |-> "", ok |-> TRUE])
        /\ UNCHANGED <<session, board, stored, lockHolder, nextId, hist>>

LocalRenew ==
    \E m \in Requests({"renew"}) :
        /\ msgs' = Reply(m, [err |-> "", ok |-> TRUE])
        /\ UNCHANGED <<session, board, stored, lockHolder, nextId, hist>>

LocalRelease ==
    \E m \in Requests({"release"}) :
        /\ msgs' = Reply(m, [err |-> "", ok |-> TRUE])
        /\ UNCHANGED <<session, board, stored, lockHolder, nextId, hist>>

LocalGet ==
    \E m \in Requests({"get"}) :
        /\ msgs' = Reply(m, [err |-> "", locked |-> FALSE])
        /\ UNCHANGED <<session, board, stored, lockHolder, nextId, hist>>

----------------------------------------------------------------------------
(* SpecHist: the edit history of an Editor session, from every loaded      *)
(* layer state                                                             *)

InitHist ==
    /\ \E ls \in {createEmptyState.layers, LayersTwo, LayersHidden} :
        board = [s \in Users |->
                    IF s = "A" THEN [FreshBoard EXCEPT !.layers = ls] ELSE FreshBoard]
    /\ session = [s \in Users |-> IF s = "A" THEN EditorSession ELSE FreshSession]
    /\ msgs = EmptyBag
    /\ stored = NoDocument
    /\ lockHolder = "A"
    /\ nextId = 1
    /\ hist = HistOn

NextHist ==
    \/ AddShape("A", {"arrow", "text"}, MaxHist)
    \/ DeleteShape("A")
    \/ UpsertShape("A")
    \/ Erase("A")
    \/ Undo("A")
    \/ Redo("A")

SpecHist == InitHist /\ [][NextHist]_vars

----------------------------------------------------------------------------
(* Claims on the edit history *)

\* C8: n >= 1 mutations through updateLayer starting from layers L, followed
\* by n undos, leave the layer sequence equal to L.
C8_UndoIsLeftInverse ==
    (hist.mark.on /\ hist.mark.n >= 1 /\ hist.mark.u = hist.mark.n)
        => board["A"].layers = hist.mark.L

\* two mutations that changed the layers have been undone by two undos
C8_Witness ==
    /\ hist.mark.on /\ hist.mark.n >= 2 /\ hist.mark.u = hist.mark.n
    /\ hist.last = "undo"
    /\ hist.before[1] # board["A"].layers
    /\ Len(hist.mark.L) > 0

\* C9: undo immediately followed by redo leaves the layers, the undo stack
\* and the redo stack as they were before the undo.
C9_UndoRedoRoundTrip ==
    hist.last = "undoredo" => H(board["A"]) = hist.before

\* undo then redo were performed from a state with both stacks non-empty
C9_Witness ==
    /\ hist.last = "undoredo"
    /\ Len(hist.before[2]) >= 1
    /\ Len(hist.before[3]) >= 1
    /\ Last(hist.before[2]) # hist.before[1]

\* C10: right after a mutation through updateLayer the redo stack is empty
\* and redo changes nothing.
C10_MutationClearsRedo ==
    hist.last = "edit" =>
        /\ board["A"].redoStack = <<>>
        /\ redo(board["A"]) = board["A"]

\* a mutation was performed while the redo stack held an entry
C10_Witness ==
    /\ hist.last = "edit"
    /\ Len(hist.before[3]) >= 1
    /\ hist.before[1] # board["A"].layers

\* C11: undo and redo only move entries between the stacks: a successful
\* undo removes the top of the undo stack and adds one entry to the redo
\* stack, a successful redo does the reverse, so the sum of the two lengths
\* is unchanged; undo on an empty undo stack and redo on an empty redo stack
\* leave the layers and both stacks unchanged.
C11_StacksOnlyMove ==
    [][LET b == board["A"]
           c == board'["A"]
       IN /\ hist'.last = "undo" =>
                /\ c.undoStack = Front(b.undoStack)
                /\ Len(c.redoStack) = Len(b.redoStack) + 1
                /\ Front(c.redoStack) = b.redoStack
          /\ hist'.last \in {"redo", "undoredo"} =>
                /\ c.redoStack = Front(b.redoStack)
                /\ Len(c.undoStack) = Len(b.undoStack) + 1
                /\ Front(c.undoStack) = b.undoStack
          /\ hist'.last \in {"undo", "redo", "undoredo"} =>
                Len(c.undoStack) + Len(c.redoStack)
                    = Len(b.undoStack) + Len(b.redoStack)
          /\ hist'.last = "noop" => H(c) = H(b)]_vars

\* an undo has just moved an entry while both stacks hold one
C11_Witness ==
    /\ hist.last = "undo"
    /\ Len(board["A"].undoStack) = 1
    /\ Len(board["A"].redoStack) = 1
    /\ hist.before[1] # board["A"].layers

----------------------------------------------------------------------------
(* Spec: one session (user A) against the REST backend, with another user  *)
(* and the network as environment                                          *)

Init ==
    /\ session = [s \in Users |-> FreshSession]
    /\ board = [s \in Users |-> FreshBoard]
    /\ msgs = EmptyBag
    /\ stored \in {NoDocument,
                   [exists |-> TRUE, layers |-> LayersOneArrow, image |-> 1,
                    version |-> 1]}
    /\ lockHolder = "none"
    /\ nextId = 1
    /\ hist = HistOff

Next ==
    \/ Mount("A")
    \/ LoadDone("A")
    \/ AcquireDone("A")
    \/ HeartbeatTick("A")
    \/ RenewDone("A")
    \/ PollTick("A")
    \/ GetDone("A")
    \/ PollDocDone("A")
    \/ AddShape("A", {"arrow"}, MaxEdits)
    \/ AutosaveFire("A", 0)
    \/ SaveDone("A")
    \/ ReloadDone("A")
    \/ Destroy("A")
    \/ ReleaseDone("A")
    \/ RestGetDocument
    \/ RestSaveDocument
    \/ RestAcquire
    \/ RestRenew
    \/ RestRelease
    \/ RestGet
    \/ TransportError
    \/ LockExpire
    \/ OtherAcquire
    \/ OtherSave

Spec == Init /\ [][Next]_vars

----------------------------------------------------------------------------
(* Claims on the session (Spec) *)

\* the saveDocument calls of a session that have not returned to it yet
SaveCount(s) ==
    LET ms == {m \in BagToSet(msgs) : m.sess = s /\ m.kind = "save"}
    IN IF ms = {} THEN 0
       ELSE IF \E m \in ms : CopiesIn(m, msgs) > 1 \/ Cardinality(ms) > 1 THEN 2
       ELSE 1

\* C1: single-flight save: a session never has more than one saveDocument
\* call outstanding, and saving is set while one is outstanding.
C1_SingleFlight ==
    /\ SaveCount("A") <= 1
    /\ SaveCount("A") = 1 => session["A"].saving

\* a save is outstanding and the autosave timer is pending again
C1_Witness ==
    /\ SaveCount("A") = 1
    /\ session["A"].autosaveTimer # {}
    /\ session["A"].isEditor

\* C2: the heartbeat interval and the poll interval are never both active.
C2_TimersExclusive ==
    ~(session["A"].lockHeartbeat /\ session["A"].pollInterval)

\* the session was demoted to polling while a renew of an earlier heartbeat
\* tick and a get of a poll tick are still in flight
C2_Witness ==
    /\ session["A"].pollInterval
    /\ ~session["A"].lockHeartbeat
    /\ \E m \in BagToSet(msgs) : m.sess = "A" /\ m.kind = "renew"
    /\ \E m \in BagToSet(msgs) : m.sess = "A" /\ m.kind = "get"

\* C3: whenever saveDocument was rejected with a version conflict, the
\* recovery ends with the local version equal to the version of the document
\* the server returned, isEditor false, the poll timer running and the
\* heartbeat cancelled.  (The recovery ends when the reload's getDocument
\* returns to the session.)
C3_ConflictRecovery ==
    [][\A m \in Responses("A", "reload") :
            msgs' = Take(msgs, m) =>
                /\ ~session'["A"].isEditor
                /\ session'["A"].pollInterval
                /\ ~session'["A"].lockHeartbeat
                /\ Ok(m.res) => board'["A"].docVersion = m.res.doc.version]_vars

\* C4: a saveDocument call is issued only while isEditor is set; an autosave
\* timer that fires after a demotion issues none.
C4_SaveOnlyAsEditor ==
    [][SaveCount("A")' > SaveCount("A") => session["A"].isEditor]_vars

\* the autosave timer is pending in a session demoted to ReadOnly
C4_Witness ==
    /\ session["A"].autosaveTimer # {}
    /\ ~session["A"].isEditor
    /\ session["A"].pollInterval
    /\ ~session["A"].saving

\* C13: once the first acquire attempt has completed (it starts one of the
\* two timers), exactly one of the heartbeat timer and the poll timer is
\* active in every state until teardown: a step of a session with a timer
\* active that leaves it mounted leaves exactly one timer active.
C13_ExactlyOneTimer ==
    [][((session["A"].lockHeartbeat \/ session["A"].pollInterval)
            /\ session'["A"].phase = "mounted")
        => (session'["A"].lockHeartbeat # session'["A"].pollInterval)]_vars

\* C14: after teardown no timer of the session is pending or active: the
\* heartbeat, the poll and the autosave timer are cancelled by onDestroy and
\* no response delivered afterwards starts one.
C14_NoTimerAfterTeardown ==
    session["A"].phase = "destroyed" =>
        /\ ~session["A"].lockHeartbeat
        /\ ~session["A"].pollInterval
        /\ session["A"].autosaveTimer = {}

\* C16: every completed acquire attempt leaves a consistent lock state:
\* ok = true gives Editor with the heartbeat timer started (and no poll
\* timer); ok = false or a transport error gives ReadOnly with the poll timer
\* started (and no heartbeat timer).
C16_AcquireOutcome ==
    [][\A m \in Responses("A", "acquire") :
            msgs' = Take(msgs, m) =>
                IF Ok(m.res) /\ m.res.ok
                THEN /\ session'["A"].isEditor
                     /\ session'["A"].lockHeartbeat
                     /\ ~session'["A"].pollInterval
                ELSE /\ ~session'["A"].isEditor
                     /\ session'["A"].pollInterval
                     /\ ~session'["A"].lockHeartbeat]_vars

\* a session that was polling (a get of a poll tick is still in flight) has
\* acquired the lock and runs the heartbeat
C16_Witness ==
    /\ session["A"].isEditor
    /\ session["A"].lockHeartbeat
    /\ ~session["A"].pollInterval
    /\ session["A"].phase = "mounted"
    /\ \E m \in BagToSet(msgs) : m.sess = "A" /\ m.kind = "get"

\* C17: the answer to a heartbeat tick's renew demotes the session (ReadOnly,
\* poll timer started, heartbeat cancelled) if and only if it is an explicit
\* ok = false; a transport error leaves the session as it was, Editor with
\* the heartbeat active, and issues no new renew.
C17_RenewOutcome ==
    [][\A m \in Responses("A", "renew") :
            msgs' = Take(msgs, m) =>
                IF Ok(m.res) /\ ~m.res.ok
                THEN /\ ~session'["A"].isEditor
                     /\ session'["A"].pollInterval
                     /\ ~session'["A"].lockHeartbeat
                ELSE session'["A"] = session["A"]]_vars

\* the session was demoted while its autosave timer was pending and another
\* user holds the lock: renew answered ok = false
C17_Witness ==
    /\ ~session["A"].isEditor
    /\ session["A"].pollInterval
    /\ session["A"].autosaveTimer # {}
    /\ session["A"].phase = "mounted"
    /\ lockHolder = "X"
    /\ InFlight("A") = 0

\* C18: the document fetched by a poll tick is applied only when the session
\* is still ReadOnly at the time the answer arrives: delivered to a session
\* that has become Editor, it changes neither layers, image nor version.
C18_LatePollIgnored ==
    [][\A m \in Responses("A", "pollDoc") :
            (msgs' = Take(msgs, m) /\ session["A"].isEditor) =>
                board'["A"] = board["A"]]_vars

\* the release calls of session s, requested or answered
ReleaseCount(s) ==
    LET ms == {m \in BagToSet(msgs) : m.sess = s /\ m.kind = "release"}
    IN IF ms = {} THEN 0 ELSE CopiesIn(CHOOSE m \in ms : TRUE, msgs) + Cardinality(ms) - 1

\* C19: teardown requests release exactly when the session is Editor at that
\* moment (and release is requested at no other step); the answer to release,
\* success or failure, changes nothing of the session.
C19_ReleaseAtTeardown ==
    [][/\ (session["A"].phase = "mounted" /\ session'["A"].phase = "destroyed") =>
            (ReleaseCount("A")' > ReleaseCount("A") <=> session["A"].isEditor)
       /\ ReleaseCount("A")' > ReleaseCount("A") =>
            (session["A"].phase = "mounted" /\ session'["A"].phase = "destroyed")
       /\ \A m \in Responses("A", "release") :
            msgs' = Take(msgs, m) =>
                (session'["A"] = session["A"] /\ board'["A"] = board["A"])]_vars

\* an Editor session was torn down and its release failed: the answer has
\* been delivered and the lock is still held in its name
C19_Witness ==
    /\ session["A"].phase = "destroyed"
    /\ session["A"].isEditor
    /\ ReleaseCount("A") = 0
    /\ lockHolder = "A"

----------------------------------------------------------------------------
(* SpecGate: the editing handlers of one session in every lock state: the  *)
(* session loads a stored document with an image, an arrow and a text box, *)
(* and gains and loses the lock against another user.                      *)

TextDocument ==
    [exists |-> TRUE, layers |-> LayersTwo, image |-> 1, version |-> 1]

InitGate ==
    /\ session = [s \in Users |-> FreshSession]
    /\ board = [s \in Users |-> FreshBoard]
    /\ msgs = EmptyBag
    /\ stored = TextDocument
    /\ lockHolder \in {"none", "X"}
    /\ nextId = 1
    /\ hist = HistOff

NextGate ==
    \/ Mount("A")
    \/ LoadDone("A")
    \/ AcquireDone("A")
    \/ HeartbeatTick("A")
    \/ RenewDone("A")
    \/ PollTick("A")
    \/ GetDone("A")
    \/ PollDocDone("A")
    \/ AddShape("A", {"arrow", "text"}, MaxEdits)
    \/ DeleteShape("A")
    \/ UpsertShape("A")
    \/ Erase("A")
    \/ Undo("A")
    \/ Redo("A")
    \/ RestGetDocument
    \/ RestAcquire
    \/ RestRenew
    \/ RestGet
    \/ LockExpire
    \/ OtherAcquire

SpecGate == InitGate /\ [][NextGate]_vars

\* C15: while the session is not Editor, no user-driven operation changes
\* the layers or the history stacks: a step taken from a state with isEditor
\* unset changes them only by applying a document that getDocument returned,
\* which leaves the stacks alone.
C15_EditsGated ==
    [][(~session["A"].isEditor /\ H(board'["A"]) # H(board["A"])) =>
            /\ board'["A"].undoStack = board["A"].undoStack
            /\ board'["A"].redoStack = board["A"].redoStack
            /\ \E m \in BagToSet(msgs) :
                    /\ m.sess = "A" /\ m.st = "resp" /\ m.kind \in DocKinds
                    /\ CopiesIn(m, msgs') < CopiesIn(m, msgs)]_vars

----------------------------------------------------------------------------
(* SpecSave: the save pipeline of a session that has loaded the stored     *)
(* document and holds the lock, with another writer as environment.  Timers *)
(* that are pending fire, calls are answered and answers are delivered     *)
(* (weak fairness); the user is free to stop editing.                      *)

LoadedDocument ==
    [exists |-> TRUE, layers |-> LayersOneArrow, image |-> 1, version |-> 1]

InitSave ==
    /\ session = [s \in Users |->
            IF s = "A" THEN [EditorSession EXCEPT !.lastSavedImageDataUrl = 1]
            ELSE FreshSession]
    /\ board = [s \in Users |->
            IF s = "A" THEN applyState(FreshBoard, DocOf(LoadedDocument))
            ELSE FreshBoard]
    /\ msgs = EmptyBag
    /\ stored = LoadedDocument
    /\ lockHolder = "A"
    /\ nextId = 1
    /\ hist = HistOff

NextSave ==
    \/ AddShape("A", {"arrow"}, MaxHist)
    \/ AutosaveFire("A", 0)
    \/ SaveDone("A")
    \/ ReloadDone("A")
    \/ HeartbeatTick("A")
    \/ RenewDone("A")
    \/ RestSaveDocument
    \/ RestGetDocument
    \/ RestRenew
    \/ OtherSave

SpecSave ==
    /\ InitSave
    /\ [][NextSave]_vars
    /\ WF_vars(AutosaveFire("A", 0))
    /\ WF_vars(SaveDone("A"))
    /\ WF_vars(ReloadDone("A"))
    /\ WF_vars(RestSaveDocument)
    /\ WF_vars(RestGetDocument)

\* a save of session s is in flight that does not carry the local layers,
\* and no autosave timer is pending: the timer set by the newer mutation has
\* fired while the save was in flight
FiredWhileSaving(s) ==
    /\ session[s].isEditor
    /\ session[s].saving
    /\ session[s].autosaveTimer = {}
    /\ \E m \in BagToSet(msgs) :
            m.sess = s /\ m.kind = "save" /\ m.arg.layers # board[s].layers

\* a saveDocument call of session s carries the local layers
SaveCarriesLocal(s) ==
    \E m \in Requests({"save"}) : m.sess = s /\ m.arg.layers = board[s].layers

\* C12: when the autosave timer fires while a save is in flight, the save is
\* deferred: unless the session leaves Editor state, a save carrying the
\* newer local layers is eventually started, without a further mutation.
C12_DeferredSave ==
    FiredWhileSaving("A") ~> (~session["A"].isEditor \/ SaveCarriesLocal("A"))

----------------------------------------------------------------------------
(* SpecImage: the save pipeline of an Editor session whose user replaces   *)
(* the image, with failing calls and another writer as environment         *)

NextImage ==
    \/ PickFile("A")
    \/ FileDone("A")
    \/ AddShape("A", {"arrow"}, MaxEdits)
    \/ AutosaveFire("A", 0)
    \/ SaveDone("A")
    \/ ReloadDone("A")
    \/ RestSaveDocument
    \/ RestGetDocument
    \/ TransportError
    \/ OtherSave

SpecImage == InitSave /\ [][NextImage]_vars

\* C21: a save request omits the image exactly when the local image is
\* identical to the last image that was successfully saved or loaded (the
\* stored image: requests are issued only when no save is outstanding).
C21_ImageOmittedIffSaved ==
    [][SaveCount("A")' > SaveCount("A") =>
            \A m \in BagToSet(msgs') :
                (m.sess = "A" /\ m.kind = "save" /\ m.st = "req") =>
                    (m.arg.image = 0 <=> board["A"].docImage = stored.image)]_vars

\* C22: when saveDocument fails with an error other than a version
\* conflict, handling the failure changes nothing of the local document
\* (layers, image, version, stacks) and nothing of the session (last-saved
\* fingerprint, isEditor, lock timers, autosave timer) except that saving is
\* cleared.
C22_SaveFailureKeepsState ==
    [][\A m \in Responses("A", "save") :
            (msgs' = Take(msgs, m) /\ ~Ok(m.res) /\ m.res.err # "version_conflict") =>
                /\ board'["A"] = board["A"]
                /\ session["A"].saving
                /\ session'["A"] = [session["A"] EXCEPT !.saving = FALSE]]_vars

\* the only save attempt of a mutation has failed with a transport error:
\* the session is Editor and idle, and the mutation is not in storage
C22_Witness ==
    /\ session["A"].isEditor
    /\ ~session["A"].saving
    /\ session["A"].autosaveTimer = {}
    /\ session["A"].lastSavedImageDataUrl = 1
    /\ InFlight("A") = 0
    /\ Len(board["A"].undoStack) = 1
    /\ board["A"].docVersion = 1
    /\ stored = LoadedDocument

----------------------------------------------------------------------------
(* SpecDebounce: the autosave scheduler of an Editor session under a clock: *)
(* mutations, undo and redo arrive at any time, a timeout fires no earlier *)
(* than AutosaveTicks after it was set.                                    *)

InitDebounce ==
    /\ session = [s \in Users |->
            IF s = "A" THEN [EditorSession EXCEPT !.lastSavedImageDataUrl = 1]
            ELSE FreshSession]
    /\ board = [s \in Users |->
            IF s = "A" THEN applyState(FreshBoard, DocOf(LoadedDocument))
            ELSE FreshBoard]
    /\ msgs = EmptyBag
    /\ stored = LoadedDocument
    /\ lockHolder = "A"
    /\ nextId = 1
    /\ hist = HistOn

NextDebounce ==
    \/ AddShape("A", {"arrow"}, MaxHist)
    \/ Undo("A")
    \/ Redo("A")
    \/ TimePasses
    \/ AutosaveFire("A", AutosaveTicks)
    \/ SaveDone("A")
    \/ ReloadDone("A")
    \/ RestSaveDocument
    \/ RestGetDocument
    \/ OtherSave

SpecDebounce == InitDebounce /\ [][NextDebounce]_vars

\* C20: trailing-edge debounce.  In Editor state every operation that
\* changes the layers (it moves the history stacks) leaves exactly one
\* autosave timeout pending, freshly set; at most one timeout is pending at
\* any time; and a save is started only when a full delay has passed since
\* the most recent such operation.
C20_TrailingDebounce ==
    [][/\ Cardinality(session'["A"].autosaveTimer) <= 1
       /\ (session["A"].isEditor
            /\ <<board'["A"].undoStack, board'["A"].redoStack>>
                    # <<board["A"].undoStack, board["A"].redoStack>>)
            => session'["A"].autosaveTimer = {0}
       /\ SaveCount("A")' > SaveCount("A") => hist.quiet >= AutosaveTicks]_vars

\* one save, started after the delay, carries a burst of two mutations
C20_Witness ==
    /\ SaveCount("A") = 1
    /\ \E m \in Requests({"save"}) : m.arg.layers = board["A"].layers
    /\ Len(board["A"].undoStack) = 2
    /\ stored.version = 1
    /\ session["A"].autosaveTimer = {}
    /\ hist.quiet = AutosaveTicks

----------------------------------------------------------------------------
(* SpecLocal: two sessions (users A and B, one tab each) on the bundled    *)
(* local adapters, sharing the stored document                             *)

InitLocal ==
    /\ session = [s \in Users |-> FreshSession]
    /\ board = [s \in Users |-> FreshBoard]
    /\ msgs = EmptyBag
    /\ stored = NoDocument
    /\ lockHolder = "none"
    /\ nextId = 1
    /\ hist = HistOff

NextLocal ==
    \/ \E s \in Users :
        \/ Mount(s)
        \/ LoadDone(s)
        \/ AcquireDone(s)
        \/ HeartbeatTick(s)
        \/ RenewDone(s)
        \/ AddShape(s, {"arrow"}, MaxEdits)
        \/ AutosaveFire(s, 0)
        \/ SaveDone(s)
        \/ Destroy(s)
        \/ ReleaseDone(s)
    \/ LocalGetDocument
    \/ LocalSaveDocument
    \/ LocalAcquire
    \/ LocalRenew
    \/ LocalRelease

SpecLocal == InitLocal /\ [][NextLocal]_vars

----------------------------------------------------------------------------
(* Claims on the adapters (SpecLocal) *)

\* the save request m is answered in this step
Answered(m) == CopiesIn(m, msgs') < CopiesIn(m, msgs)

\* C5: two sessions of different users on the same document and lock adapter
\* are never both in Editor state.
C5_MutualExclusion ==
    ~(session["A"].isEditor /\ session["B"].isEditor)

\* C6: a saveDocument call whose baseVersion differs from the stored version
\* fails with a version conflict and leaves the stored document unchanged.
C6_StaleSaveRejected ==
    [][\A m \in Requests({"save"}) :
            (Answered(m) /\ m.arg.baseVersion # stored.version) =>
                /\ stored' = stored
                /\ \E r \in BagToSet(msgs') :
                        /\ r.st = "resp" /\ r.kind = "save" /\ r.sess = m.sess
                        /\ r.res.err = "version_conflict"]_vars

\* C7: every successful saveDocument of the local adapter stores and returns
\* a version exactly one greater than the version stored before (1 for a
\* document that did not exist), and the stored version never decreases.
C7_VersionIncrements ==
    [][/\ stored'.version >= stored.version
       /\ \A m \in Requests({"save"}) :
            Answered(m) =>
                /\ stored'.version = (IF stored.exists THEN stored.version ELSE 0) + 1
                /\ \E r \in BagToSet(msgs') :
                        /\ r.st = "resp" /\ r.kind = "save" /\ r.sess = m.sess
                        /\ r.res = [err |-> "", version |-> stored'.version]]_vars

\* two saves have succeeded, the second from a session whose local version
\* was behind the stored one
C7_Witness ==
    /\ stored.version = 2
    /\ \E s \in Users : board[s].docVersion = 0 /\ Len(board[s].undoStack) = 1
    /\ \E r \in BagToSet(msgs) : r.st = "resp" /\ r.kind = "save" /\ r.res.version = 2

----------------------------------------------------------------------------
(* Claims on the first load (SpecLocal, Spec) *)

\* the response m is consumed in this step
Consumed(m) == CopiesIn(m, msgs') < CopiesIn(m, msgs)

AcquireCalls(s) == {m \in BagToSet(msgs) : m.sess = s /\ m.kind = "acquire"}

\* the document of session s has been applied: its load is answered and
\* handled, and the layers store is no longer the empty array of board.ts
DocumentApplied(s) ==
    /\ \A m \in BagToSet(msgs) : ~(m.sess = s /\ m.kind = "load")
    /\ session[s].phase # "new"
    /\ board[s].layers # <<>>

\* C23: when getDocument reports that there is no document, the session
\* applies a fresh empty document: version 0, no image, one visible layer
\* without shapes.  The lock is requested only once the loaded or empty
\* document has been applied, and the session is never Editor before that.
C23_EmptyDocumentThenAcquire ==
    /\ [][\A s \in Users : \A m \in Responses(s, "load") :
            (Consumed(m) /\ m.res.err = "not_found") =>
                /\ board'[s].layers =
                        <<[id |-> "layer-1", visible |-> TRUE, shapes |-> <<>>]>>
                /\ board'[s].docImage = 0
                /\ board'[s].docVersion = 0
                /\ AcquireCalls(s) = {}
                /\ \E a \in BagToSet(msgs') :
                        a.sess = s /\ a.kind = "acquire" /\ a.st = "req"]_vars
    /\ [](\A s \in Users :
            (AcquireCalls(s) # {} \/ session[s].isEditor) => DocumentApplied(s))

\* nothing is stored, session A holds the empty document and is asking for
\* the lock
C23_Witness ==
    /\ ~stored.exists
    /\ board["A"].layers = <<[id |-> "layer-1", visible |-> TRUE, shapes |-> <<>>]>>
    /\ board["A"].docVersion = 0
    /\ board["A"].docImage = 0
    /\ ~session["A"].isEditor
    /\ \E a \in AcquireCalls("A") : a.st = "req"

\* C24: a transport error of getDocument on load leaves the local document
\* state unchanged; only a missing document is replaced by the empty one.
C24_LoadFailureKeepsDocument ==
    [][\A m \in Responses("A", "load") :
            (Consumed(m) /\ ~Ok(m.res) /\ m.res.err # "not_found") =>
                board'["A"] = board["A"]]_vars

\* C25: whenever a document fetched from storage is applied (first load, poll
\* refresh, reload after a version conflict) the undo and redo stacks are
\* empty afterwards.
C25_ReloadResetsHistory ==
    [][\A m \in BagToSet(msgs) :
            (/\ m.sess = "A" /\ m.st = "resp" /\ m.kind \in DocKinds
             /\ Consumed(m) /\ Ok(m.res)) =>
                /\ board'["A"].undoStack = <<>>
                /\ board'["A"].redoStack = <<>>]_vars

\* an undo (d = -1) or a redo (d = 1) of session s takes effect in this step:
\* one entry moves from one stack to the other
HistoryStep(s, d) ==
    /\ Len(board'[s].undoStack) = Len(board[s].undoStack) + d
    /\ Len(board'[s].redoStack) = Len(board[s].redoStack) - d

\* C27: undo and redo change only the layers and the two stacks (and re-arm
\* the autosave timeout): the image, the version, the last-saved image,
\* isEditor, saving, the lock timers, the calls in flight and the stored
\* document are unchanged.
C27_UndoRedoFrame ==
    [][(HistoryStep("A", -1) \/ HistoryStep("A", 1)) =>
            /\ board'["A"].docImage = board["A"].docImage
            /\ board'["A"].docVersion = board["A"].docVersion
            /\ session'["A"] =
                    [session["A"] EXCEPT !.autosaveTimer = session'["A"].autosaveTimer]
            /\ msgs' = msgs
            /\ stored' = stored
            /\ lockHolder' = lockHolder]_vars

\* an undo has taken effect on a document that has an image and has been
\* saved by this session
C27_Witness ==
    /\ hist.last = "undo"
    /\ Len(board["A"].redoStack) >= 1
    /\ board["A"].docVersion = 2
    /\ board["A"].docImage = 1
    /\ session["A"].isEditor
    /\ session["A"].lockHeartbeat
    /\ session["A"].autosaveTimer = {0}
    /\ hist.quiet = 0
    /\ hist.before[1] # board["A"].layers

----------------------------------------------------------------------------
(* SpecUndoSave: an Editor session that mutates, undoes and redoes while   *)
(* its saves run against the backend.  A pending autosave timeout fires,   *)
(* and every call in flight is answered and handled (weak fairness).       *)

NextUndoSave ==
    \/ AddShape("A", {"arrow"}, MaxHist)
    \/ Undo("A")
    \/ Redo("A")
    \/ AutosaveFire("A", 0)
    \/ SaveDone("A")
    \/ ReloadDone("A")
    \/ RestSaveDocument
    \/ RestGetDocument
    \/ OtherSave

SpecUndoSave ==
    /\ InitDebounce
    /\ [][NextUndoSave]_vars
    /\ WF_vars(AutosaveFire("A", 0))
    /\ WF_vars(SaveDone("A"))
    /\ WF_vars(ReloadDone("A"))
    /\ WF_vars(RestSaveDocument)
    /\ WF_vars(RestGetDocument)

\* the last operation on the history was an undo or a redo that took effect
RestoredByHistory ==
    /\ session["A"].isEditor
    /\ hist.last \in {"undo", "redo", "undoredo"}

\* the backend has reached the version bound and leaves a matching save of
\* session s unanswered
SaveHeldAtBound(s) ==
    \E m \in Requests({"save"}) :
        m.sess = s /\ m.arg.baseVersion = stored.version /\ stored.version = MaxVersion

\* C26: in Editor state every undo and every redo that takes effect leaves
\* an autosave timeout pending, and unless the session is demoted (or a
\* newer mutation replaces the restored layers) a save carrying the restored
\* layers is eventually started.
C26_UndoRedoSaved ==
    /\ [][(/\ session["A"].isEditor
           /\ Len(board'["A"].undoStack) + Len(board'["A"].redoStack)
                = Len(board["A"].undoStack) + Len(board["A"].redoStack)
           /\ Len(board'["A"].undoStack) # Len(board["A"].undoStack))
            => session'["A"].autosaveTimer # {}]_vars
    /\ RestoredByHistory ~>
            \/ ~session["A"].isEditor
            \/ hist.last = "edit"
            \/ SaveCarriesLocal("A")
            \/ SaveHeldAtBound("A")

----------------------------------------------------------------------------
(* SpecErase: the erase tool of an Editor session on documents whose       *)
(* layers hold arrows and polylines of several stroke widths, at points on *)
(* and around them; undo and redo.                                         *)

WideArrow == ArrowShape(107, "layer-2", Pt(10, 10), Pt(50, 50), 6)
ThinLine == FreehandShape(105, "layer-1", <<Pt(10, 50), Pt(30, 50), Pt(30, 80)>>, 0)
Dot == FreehandShape(108, "layer-2", <<Pt(200, 200)>>, 2)
FarText == TextShape(106, "layer-1", Pt(100, 100), "note")

\* both layers visible; the second visible only; none visible; no layer
LayersErase ==
    <<Layer("layer-1", TRUE, <<StoredArrow, ThinLine, OtherArrow, FarText>>),
      Layer("layer-2", TRUE, <<WideArrow>>)>>
LayersEraseSecond ==
    <<Layer("layer-1", FALSE, <<StoredArrow, OtherArrow>>),
      Layer("layer-2", TRUE, <<WideArrow, Dot>>)>>
LayersEraseNone ==
    <<Layer("layer-1", FALSE, <<OtherArrow, StoredArrow>>),
      Layer("layer-2", FALSE, <<WideArrow>>)>>

\* pointer positions: on the arrows' segment, at distances 9.9, 12.02 and
\* 14.8 of it, on and near the polyline, on the text, on the dot, off all
HitProbes ==
    {Pt(30, 30), Pt(30, 16), Pt(30, 13), Pt(30, 9), Pt(20, 60), Pt(41, 70),
     Pt(100, 100), Pt(200, 200), Pt(300, 300)}

InitErase ==
    /\ \E ls \in {LayersErase, LayersEraseSecond, LayersEraseNone, <<>>} :
        board = [s \in Users |->
                    IF s = "A" THEN [FreshBoard EXCEPT !.layers = ls] ELSE FreshBoard]
    /\ session = [s \in Users |-> IF s = "A" THEN EditorSession ELSE FreshSession]
    /\ msgs = EmptyBag
    /\ stored = NoDocument
    /\ lockHolder = "A"
    /\ nextId = 1
    /\ hist = HistErase

NextErase ==
    \/ EraseAt("A", HitProbes)
    \/ Undo("A")
    \/ Redo("A")

SpecErase == InitErase /\ [][NextErase]_vars

\* d >= r for a squared distance d = <<num, den>> and r >= 0
AtLeast(d, r) == d[1] >= Sq(r) * d[2]

\* every segment of the shape is at distance r or more of p
FarFrom(shape, p, r) ==
    \A i \in 2..Len(shape.points) :
        AtLeast(distancePointToSegment(p, shape.points[i - 1], shape.points[i]), r)

\* the shape sh of layer i is still in layer i after the step
Kept(i, sh) ==
    \E k \in DOMAIN board'["A"].layers[i].shapes :
        board'["A"].layers[i].shapes[k] = sh

\* C28: an erase never removes an arrow or a polyline when the point is at
\* distance strokeWidth + 8 + 1 or more of every one of its segments, for
\* every stroke width, a zero (missing) one included.
C28_FarPointNeverHit ==
    [][hist'.last = "edit" =>
        \A i \in DOMAIN board["A"].layers :
            \A j \in DOMAIN board["A"].layers[i].shapes :
                LET sh == board["A"].layers[i].shapes[j]
                IN (/\ sh.kind \in {"arrow", "freehand"}
                    /\ FarFrom(sh, hist'.point, sh.strokeWidth + 8 + 1))
                        => Kept(i, sh)]_vars

\* the width a shape is drawn with: 3 when its strokeWidth is missing or zero
DrawnWidth(sh) == IF sh.strokeWidth = 0 THEN 3 ELSE sh.strokeWidth

\* C28 (amended): an erase never removes an arrow or a polyline when the
\* point is at distance w + 8 + 1 or more of every one of its segments, where
\* w is the shape's strokeWidth, or 3 when the strokeWidth is missing or zero.
C28_FarPointNeverHitDrawn ==
    [][hist'.last = "edit" =>
        \A i \in DOMAIN board["A"].layers :
            \A j \in DOMAIN board["A"].layers[i].shapes :
                LET sh == board["A"].layers[i].shapes[j]
                IN (/\ sh.kind \in {"arrow", "freehand"}
                    /\ FarFrom(sh, hist'.point, DrawnWidth(sh) + 8 + 1))
                        => Kept(i, sh)]_vars

\* an erase has removed the polyline next to the point and kept the arrow
\* without stroke width, which is far from it
C28_Witness ==
    /\ hist.last = "edit"
    /\ hist.before[1] = LayersErase
    /\ FarFrom(OtherArrow, hist.point, DrawnWidth(OtherArrow) + 8 + 1)
    /\ ~FarFrom(ThinLine, hist.point, DrawnWidth(ThinLine) + 8 + 1)
    /\ board["A"].layers[1].shapes = <<StoredArrow, OtherArrow, FarText>>

\* layer i is the active one: the first visible layer in document order, or
\* the first layer when none is visible
ActiveLayerIs(ls, i) ==
    IF \E k \in DOMAIN ls : ls[k].visible
    THEN ls[i].visible /\ \A k \in 1..(i - 1) : ~ls[k].visible
    ELSE i = 1

\* C29: one erase removes from the active layer exactly the shapes the hit
\* test reports, keeps the others in their order, and is one mutation: the
\* undo stack grows by one entry whatever the number of shapes removed, and
\* one undo brings all of them back.
C29_EraseIsOneMutation ==
    [][hist'.last = "edit" =>
        /\ Len(board'["A"].undoStack) = Len(board["A"].undoStack) + 1
        /\ undo(board'["A"]).layers = board["A"].layers
        /\ \A i \in DOMAIN board["A"].layers :
            ActiveLayerIs(board["A"].layers, i) =>
                LET old == board["A"].layers[i].shapes
                    new == board'["A"].layers[i].shapes
                IN /\ \A j \in DOMAIN old :
                        shouldEraseShapeAt(old[j], hist'.point)
                            <=> ~\E k \in DOMAIN new : new[k] = old[j]
                   /\ \A k \in DOMAIN new : \E j \in DOMAIN old : old[j] = new[k]
                   /\ \A k1, k2 \in DOMAIN new :
                        k1 < k2 => \E j1, j2 \in DOMAIN old :
                            j1 < j2 /\ old[j1] = new[k1] /\ old[j2] = new[k2]]_vars

\* the first erase on a document removed two arrows of the active layer at
\* once and kept the two shapes around them, with one undo entry
C29_Witness ==
    /\ hist.last = "edit"
    /\ hist.before[1] = LayersErase
    /\ board["A"].layers[1].shapes = <<ThinLine, FarText>>
    /\ Len(board["A"].undoStack) = 1

\* C30: an erase changes the active layer only: every other layer keeps its
\* shapes, also those the point hits; the layers keep their number, ids and
\* visibility; without any layer an erase changes nothing and pushes no undo
\* entry.
C30_EraseOnlyActiveLayer ==
    [][/\ hist'.last = "edit" =>
            /\ Len(board'["A"].layers) = Len(board["A"].layers)
            /\ \A i \in DOMAIN board["A"].layers :
                IF ActiveLayerIs(board["A"].layers, i)
                THEN board'["A"].layers[i] =
                        [board["A"].layers[i] EXCEPT
                            !.shapes = board'["A"].layers[i].shapes]
                ELSE board'["A"].layers[i] = board["A"].layers[i]
       /\ (board["A"].layers = <<>> /\ hist'.point # hist.point) =>
            /\ board'["A"] = board["A"]
            /\ session'["A"] = session["A"]]_vars

\* an erase on the arrows' segment, with the first layer hidden, removed the
\* arrow of the second layer and left the two arrows of the hidden layer
C30_Witness ==
    /\ hist.last = "edit"
    /\ hist.point = Pt(30, 30)
    /\ hist.before[1] = LayersEraseSecond
    /\ board["A"].layers[1] = LayersEraseSecond[1]
    /\ \A j \in DOMAIN board["A"].layers[1].shapes :
            shouldEraseShapeAt(board["A"].layers[1].shapes[j], hist.point)
    /\ board["A"].layers[2].shapes = <<Dot>>

----------------------------------------------------------------------------
(* Claims on the document's structure (SpecHist) *)

LayerIds(ls) == [i \in DOMAIN ls |-> ls[i].id]

\* layer ids are unique and every shape names the layer that holds it
WellFormed(ls) ==
    /\ \A i, j \in DOMAIN ls : ls[i].id = ls[j].id => i = j
    /\ \A i \in DOMAIN ls : \A j \in DOMAIN ls[i].shapes :
            /\ ls[i].shapes[j].layerId = ls[i].id
            /\ \E k \in DOMAIN ls : ls[k].id = ls[i].shapes[j].layerId

\* C31: from a document with unique layer ids whose shapes name their layer,
\* every sequence of addShape, upsertShape, deleteShape, erase, undo and redo
\* keeps the layer ids unique, keeps the layers and their order, and keeps
\* every shape's layerId naming an existing layer (here: the layer holding it).
C31_DocumentWellFormed ==
    /\ [](WellFormed(board["A"].layers))
    /\ [][LayerIds(board'["A"].layers) = LayerIds(board["A"].layers)]_vars

\* after an add, a delete that emptied a layer, and an undo of it
C31_Witness ==
    /\ hist.last = "undo"
    /\ Len(board["A"].layers) = 2
    /\ Len(board["A"].redoStack) = 1
    /\ \E i \in DOMAIN board["A"].layers :
            /\ Last(board["A"].redoStack)[i].shapes = <<>>
            /\ board["A"].layers[i].shapes # <<>>
    /\ \E i \in DOMAIN board["A"].layers : Len(board["A"].layers[i].shapes) = 2

----------------------------------------------------------------------------
(* Further claims on the session (Spec) *)

\* C32: while the component is mounted the editor flag and the timers agree:
\* isEditor holds exactly when the heartbeat timer is active, and an active
\* poll timer implies that isEditor does not hold.
C32_FlagMatchesTimers ==
    session["A"].phase = "mounted" =>
        /\ session["A"].isEditor <=> session["A"].lockHeartbeat
        /\ session["A"].pollInterval => ~session["A"].isEditor

\* a session that was ReadOnly (its poll's document fetch is still
\* unanswered) has become Editor with the heartbeat running
C32_Witness ==
    /\ session["A"].phase = "mounted"
    /\ session["A"].isEditor
    /\ session["A"].lockHeartbeat
    /\ ~session["A"].pollInterval
    /\ \E m \in BagToSet(msgs) : m.sess = "A" /\ m.kind = "pollDoc"

----------------------------------------------------------------------------
(* SpecSolo: one session against the REST backend when every call is      *)
(* answered by the backend (no transport error) and nobody else saves the  *)
(* document; another user may hold the lock for a while.                   *)

NextSolo ==
    \/ Mount("A")
    \/ LoadDone("A")
    \/ AcquireDone("A")
    \/ HeartbeatTick("A")
    \/ RenewDone("A")
    \/ PollTick("A")
    \/ GetDone("A")
    \/ PollDocDone("A")
    \/ AddShape("A", {"arrow"}, MaxEdits)
    \/ AutosaveFire("A", 0)
    \/ SaveDone("A")
    \/ ReloadDone("A")
    \/ Destroy("A")
    \/ ReleaseDone("A")
    \/ RestGetDocument
    \/ RestSaveDocument
    \/ RestAcquire
    \/ RestRenew
    \/ RestRelease
    \/ RestGet
    \/ LockExpire
    \/ OtherAcquire

SpecSolo == Init /\ [][NextSolo]_vars

\* C33: a session that is the only one to save never gets a version
\* conflict: no saveDocument call of the session is answered with
\* version_conflict.
C33_NoSelfConflict ==
    \A m \in BagToSet(msgs) :
        (m.sess = "A" /\ m.kind = "save" /\ m.st = "resp")
            => m.res.err # "version_conflict"

----------------------------------------------------------------------------
(* SpecPoll: a ReadOnly session polling the lock, which another user may   *)
(* hold, lose and take again; calls may fail.  An active interval ticks,   *)
(* the backend answers and the answers are handled (weak fairness).        *)

ReadOnlySession ==
    [FreshSession EXCEPT !.phase = "mounted", !.pollInterval = TRUE,
                         !.lastSavedImageDataUrl = 1]

InitPoll ==
    /\ session = [s \in Users |-> IF s = "A" THEN ReadOnlySession ELSE FreshSession]
    /\ board = [s \in Users |->
            IF s = "A" THEN applyState(FreshBoard, DocOf(LoadedDocument))
            ELSE FreshBoard]
    /\ msgs = EmptyBag
    /\ stored = LoadedDocument
    /\ lockHolder \in {"none", "X"}
    /\ nextId = 1
    /\ hist = HistOff

NextPoll ==
    \/ PollTick("A")
    \/ GetDone("A")
    \/ PollDocDone("A")
    \/ AcquireDone("A")
    \/ HeartbeatTick("A")
    \/ RenewDone("A")
    \/ RestGet
    \/ RestGetDocument
    \/ RestAcquire
    \/ RestRenew
    \/ TransportError
    \/ LockExpire
    \/ OtherAcquire

SpecPoll ==
    /\ InitPoll
    /\ [][NextPoll]_vars
    /\ WF_vars(PollTick("A"))
    /\ WF_vars(GetDone("A"))
    /\ WF_vars(PollDocDone("A"))
    /\ WF_vars(AcquireDone("A"))
    /\ WF_vars(HeartbeatTick("A"))
    /\ WF_vars(RenewDone("A"))
    /\ WF_vars(RestGet \/ RestGetDocument \/ RestAcquire \/ RestRenew
                \/ TransportError)

\* the lock is free for session A from some point on: no other user holds
\* it, and a lock that A itself holds while ReadOnly (it is not renewed)
\* expires
LockFreeForA ==
    /\ <>[](lockHolder # "X")
    /\ []<>(lockHolder # "A" \/ session["A"].isEditor)

\* C34: a ReadOnly session becomes Editor when from some point on the lock
\* is free and no call fails; otherwise (lock held, or a call of the poll
\* failing) it stays ReadOnly with the poll timer active, and whenever the
\* poll timer is stopped for an acquire attempt, the session becomes Editor
\* or the poll timer is active again.
C34_ReadOnlyProgress ==
    /\ (LockFreeForA /\ <>[][~TransportError]_vars)
            => []<>(session["A"].isEditor)
    /\ [][\A m \in Responses("A", "get") :
            (Consumed(m) /\ (~Ok(m.res) \/ m.res.locked)) =>
                session'["A"] = session["A"]]_vars
    /\ (~session["A"].isEditor /\ ~session["A"].pollInterval)
            ~> (session["A"].isEditor \/ session["A"].pollInterval)

\* the polling session has acquired the lock once it was free: it is Editor
\* with the heartbeat running and nothing in flight
C34_Witness ==
    /\ session["A"].isEditor
    /\ session["A"].lockHeartbeat
    /\ ~session["A"].pollInterval
    /\ lockHolder = "A"
    /\ InFlight("A") = 0

\* a save attempt of session s is outstanding: its saveDocument call, or the
\* getDocument call that follows a version conflict
SaveAttempt(s) ==
    \E m \in BagToSet(msgs) : m.sess = s /\ m.kind \in {"save", "reload"}

\* C35: saving is set exactly while a save attempt is outstanding; it is
\* cleared when the attempt ends, on success, on a transport error, after a
\* version conflict and its reload, and when that reload fails.
C35_SavingFlag ==
    /\ [](session["A"].saving <=> SaveAttempt("A"))
    /\ [][(SaveAttempt("A") /\ ~SaveAttempt("A")') => ~session'["A"].saving]_vars

\* a save of a mutation was rejected with a version conflict and the
\* document of the other writer was reloaded: the session is ReadOnly at the
\* stored version, nothing is in flight and saving is cleared
C35_Witness ==
    /\ ~session["A"].saving
    /\ ~session["A"].isEditor
    /\ session["A"].pollInterval
    /\ InFlight("A") = 0
    /\ Len(board["A"].undoStack) = 1
    /\ board["A"].layers = LayersOther
    /\ board["A"].docVersion = stored.version

\* C36: when a save succeeds, only the local version and the last-saved
\* image change (and saving is cleared): the layers, the image and the two
\* stacks are as they were when the answer arrived, edits made during the
\* call included.
C36_SaveSuccessFrame ==
    [][\A m \in Responses("A", "save") :
            (Consumed(m) /\ Ok(m.res)) =>
                /\ board'["A"].layers = board["A"].layers
                /\ board'["A"].docImage = board["A"].docImage
                /\ board'["A"].undoStack = board["A"].undoStack
                /\ board'["A"].redoStack = board["A"].redoStack
                /\ board'["A"].docVersion = m.res.version
                /\ session'["A"].lastSavedImageDataUrl \in
                        {session["A"].lastSavedImageDataUrl, m.arg.image}
                /\ session'["A"] =
                        [session["A"] EXCEPT
                            !.saving = FALSE,
                            !.lastSavedImageDataUrl =
                                session'["A"].lastSavedImageDataUrl]]_vars

\* a save that carried a new image has succeeded; the arrow drawn during the
\* call is in the layers, not in storage, and its autosave is pending
C36_Witness ==
    /\ ~session["A"].saving
    /\ InFlight("A") = 0
    /\ session["A"].lastSavedImageDataUrl = 2
    /\ stored.image = 2
    /\ board["A"].docVersion = 2
    /\ stored.version = 2
    /\ board["A"].layers # stored.layers
    /\ Len(board["A"].undoStack) = 1
    /\ session["A"].autosaveTimer # {}

\* C37: the local version of a session never decreases (the stored version
\* never does).
C37_VersionMonotone ==
    [][board'["A"].docVersion >= board["A"].docVersion]_vars

\* session s issues a call of the given kind in this step
Issued(s, kind) ==
    \E m \in BagToSet(msgs') :
        /\ m.sess = s /\ m.kind = kind /\ m.st = "req"
        /\ CopiesIn(m, msgs') > CopiesIn(m, msgs)

\* C38: once the session has been torn down (and has requested the release
\* of its lock) it issues no saveDocument call.
C38_NoSaveAfterRelease ==
    [][session["A"].phase = "destroyed" => ~Issued("A", "save")]_vars

\* C39: release is called at teardown only, and only by a session that is
\* Editor then: the step that demotes the session (renew answered ok = false,
\* or a version conflict) calls no release and leaves the backend's lock as
\* it is, and a ReadOnly session calls none, at its teardown included.
C39_NoReleaseWhenDemoted ==
    [][/\ Issued("A", "release") =>
            /\ session["A"].isEditor
            /\ session'["A"].phase = "destroyed"
            /\ session["A"].phase # "destroyed"
       /\ (session["A"].isEditor /\ ~session'["A"].isEditor) =>
            /\ ~Issued("A", "release")
            /\ lockHolder' = lockHolder]_vars

\* a session demoted by a version conflict was torn down while ReadOnly: no
\* release was called and the backend still holds the lock in its name
C39_Witness ==
    /\ session["A"].phase = "destroyed"
    /\ ~session["A"].isEditor
    /\ lockHolder = "A"
    /\ board["A"].layers = LayersOther
    /\ Len(board["A"].undoStack) = 1
    /\ InFlight("A") = 0

----------------------------------------------------------------------------
(* Further claims on the edit history (SpecHist) *)

\* a shape of a layer that is not in the document
StrayShape == ArrowShape(999, "layer-9", Pt(10, 10), Pt(50, 50), 3)

\* updaters that address a layer or a shape the document does not have, or
\* a point that hits nothing
UnchangedUpdates(ls) ==
    {addShapeUpdater(ls, StrayShape),
     upsertShapeUpdater(ls, "layer-9", StrayShape),
     deleteShapeUpdater(ls, "layer-9", 101),
     deleteShapeUpdater(ls, getActiveLayerId(ls), 999),
     eraseUpdater(ls, getActiveLayerId(ls), Pt(300, 300))}

\* C40: every updateLayer call pushes one undo entry, equal to the layers
\* before the call, and empties the redo stack, also when the updater leaves
\* the layers unchanged (an erase that hits nothing, an edit that changes
\* nothing, an add, upsert or delete addressed to a missing layer or shape).
C40_UnchangedStillPushes ==
    /\ [][hist'.last = "edit" =>
            /\ board'["A"].undoStack =
                    Append(board["A"].undoStack, board["A"].layers)
            /\ board'["A"].redoStack = <<>>]_vars
    /\ [](\A next \in UnchangedUpdates(board["A"].layers) :
            /\ next = board["A"].layers
            /\ updateLayer(board["A"], next) =
                    [board["A"] EXCEPT
                        !.undoStack = Append(@, board["A"].layers),
                        !.redoStack = <<>>])

\* an edit that left the layers as they were (an erase off every shape) has
\* pushed an undo entry and emptied a redo stack that held an entry
C40_Witness ==
    /\ hist.last = "edit"
    /\ board["A"].layers = hist.before[1]
    /\ board["A"].undoStack = Append(hist.before[2], hist.before[1])
    /\ hist.before[3] # <<>>
    /\ board["A"].redoStack = <<>>

====
